---- MODULE Spec2Model ----
(***************************************************************************)
(* Model of typescript/time/timer.ts: the BaseParameterValidator          *)
(* validation chain and the TimeEntry stopwatch.                           *)
(*                                                                         *)
(* JavaScript values are encoded as strings: "undefined", "null", "true",  *)
(* "false", numbers as their digits, string literals inside single quotes, *)
(* and "[object]" for an object reference.  The timestamps of TimeEntry    *)
(* are always numbers and are kept as integers.                            *)
(***************************************************************************)
EXTENDS Integers, Sequences, FiniteSets, TLC

\* Largest value Date.now() returns in the model.
MaxTime == 3
\* Largest number of predicate calls made on one chain.
MaxCalls == 3

VARIABLES
    _currentParam,   \* BaseParameterValidator._currentParam
    _currentAnswer,  \* BaseParameterValidator._currentAnswer
    calls,           \* predicates called on the chain since its construction
    valueOfRet,      \* {} or {v}: v is what the last call, valueOf(), returned
    _started,        \* TimeEntry._started
    _stopped,        \* TimeEntry._stopped
    _marker,         \* TimeEntry._marker
    now,             \* the last reading of the clock behind Date.now()
    op,              \* the last call made
    ret,             \* {} or {n}: n is the number the last TimeEntry call returned
    thrown,          \* TRUE iff the last call ended by throwing
    pre              \* the TimeEntry fields as they were before the last call

vars == <<_currentParam, _currentAnswer, calls, valueOfRet,
          _started, _stopped, _marker, now, op, ret, thrown, pre>>

chainVars == <<_currentParam, _currentAnswer, calls, valueOfRet>>
timerVars == <<_started, _stopped, _marker, now, ret, thrown, pre>>

----------------------------------------------------------------------------
(* JavaScript values and the language operations the code relies on *)

JSValues == {"undefined", "null", "true", "false", "0", "1", "''", "'true'"}

\* The values passed as a marker: no argument, the empty string, two labels.
MarkerArgs == {"undefined", "''", "'x'", "'y'"}

\* A reference to an object (here: a BaseParameterValidator instance).
ObjectRef == "[object]"

\* The boolean primitive for a condition.
JSBool(b) == IF b THEN "true" ELSE "false"

\* a === b on the encoded values (no NaN among them).
StrictEquals(a, b) == a = b

\* ToBoolean, as applied by `c ? x : y`, `!c` and `a || b`: it never calls
\* valueOf(), and every object is truthy.
ToBoolean(v) == v \notin {"undefined", "null", "false", "0", "''"}

\* a || b
LogicalOr(a, b) == IF ToBoolean(a) THEN a ELSE b

----------------------------------------------------------------------------
(* BaseParameterValidator *)

\* get current()
current(self) == self._currentParam

\* set answer(result)
answer(self, result) == [self EXCEPT !._currentAnswer = result]

\* A read of this.answer: the accessor property `answer` is declared with a
\* setter only, so its getter is absent and the read yields undefined.
getAnswer(self) == "undefined"

\* get break()
break(self) == StrictEquals(getAnswer(self), "false")

\* constructor(param)
BaseParameterValidator(param) ==
    [_currentParam |-> param, _currentAnswer |-> "true"]

isSet(self) ==
    IF ~break(self)
    THEN answer(self, JSBool(~StrictEquals(current(self), "undefined")))
    ELSE self

isNotNull(self) ==
    IF ~break(self)
    THEN answer(self, JSBool(~StrictEquals(current(self), "null")))
    ELSE self

isBoolean(self) ==
    IF ~break(self)
    THEN answer(self, JSBool(StrictEquals(current(self), "true")
                             \/ StrictEquals(current(self), "false")))
    ELSE self

isTrue(self) ==
    IF ~break(self)
    THEN answer(self, JSBool(StrictEquals(current(self), "true")))
    ELSE self

isFalse(self) ==
    IF ~break(self)
    THEN answer(self, JSBool(StrictEquals(current(self), "false")))
    ELSE self

valueOf(self) == getAnswer(self)

Predicates == {"isSet", "isNotNull", "isBoolean", "isTrue", "isFalse"}

\* The chain held in the variables.
chain == [_currentParam |-> _currentParam, _currentAnswer |-> _currentAnswer]

----------------------------------------------------------------------------
(* TimeEntry *)

\* The field initialisers.
TimeEntryFields == [_started |-> 0, _stopped |-> 0, _marker |-> "null"]

ready(self) == (self._started = 0) /\ (self._stopped = self._started)

running(self) == (self._started > 0) /\ (self._stopped = 0)

\* stopped without its test of _started.
stopped_withoutStarted(self) == self._stopped >= self._started

stopped(self) == (self._started > 0) /\ (self._stopped >= self._started)

\* The chain the constructor builds from its start flag.
strtOf(start) == isTrue(isBoolean(BaseParameterValidator(start)))

\* constructor(marker, start); dateNow is what Date.now() returns.  The
\* operand of `?` is the validator instance that isTrue() returns.
TimeEntry(marker, start, dateNow) ==
    LET strt == strtOf(start)
        returned == ObjectRef   \* isTrue() returns this, whatever strt holds
    IN  [_started |-> IF ToBoolean(returned) THEN dateNow
                      ELSE TimeEntryFields._started,
         _stopped |-> TimeEntryFields._stopped,
         _marker  |-> LogicalOr(marker, "null")]

\* start(marker) that also clears _stopped.
start_clearsStopped(self, marker, dateNow) ==
    [self |-> [_started |-> dateNow,
               _stopped |-> 0,
               _marker  |-> LogicalOr(marker, self._marker)],
     ret  |-> dateNow]

\* start(marker): the entry after the call and the value returned.
start(self, marker, dateNow) ==
    [self |-> [_started |-> dateNow,
               _stopped |-> self._stopped,
               _marker  |-> LogicalOr(marker, self._marker)],
     ret  |-> dateNow]

\* stop() guarded by the wrong getter: it records a stop only when the entry
\* is already stopped.
stop_guardedByStopped(self, dateNow) ==
    LET s == IF stopped(self) THEN dateNow ELSE self._stopped
    IN  [self |-> [self EXCEPT !._stopped = s], ret |-> s]

\* stop() without its guard: every call records Date.now().
stop_unguarded(self, dateNow) ==
    [self |-> [self EXCEPT !._stopped = dateNow], ret |-> dateNow]

\* stop() guarded by _started alone: it records a stop whenever the entry
\* was started.
stop_guardedByStarted(self, dateNow) ==
    LET s == IF self._started > 0 THEN dateNow ELSE self._stopped
    IN  [self |-> [self EXCEPT !._stopped = s], ret |-> s]

\* stop()
stop(self, dateNow) ==
    LET s == IF running(self) THEN dateNow ELSE self._stopped
    IN  [self |-> [self EXCEPT !._stopped = s], ret |-> s]

\* reset() that forgets to clear _stopped.
reset_keepsStopped(self) ==
    [_started |-> 0, _stopped |-> self._stopped, _marker |-> "null"]

\* reset()
reset(self) == [_started |-> 0, _stopped |-> 0, _marker |-> "null"]

\* elapsed() that returns instead of throwing.
elapsed_returns(self) == [self |-> self, thrown |-> FALSE]

\* elapsed(): always throws.
elapsed(self) == [self |-> self, thrown |-> TRUE]

\* The entry held in the variables.
entry == [_started |-> _started, _stopped |-> _stopped, _marker |-> _marker]

SetEntry(e) ==
    /\ _started' = e._started
    /\ _stopped' = e._stopped
    /\ _marker' = e._marker

SetChain(c) ==
    /\ _currentParam' = c._currentParam
    /\ _currentAnswer' = c._currentAnswer

----------------------------------------------------------------------------
(* The stopwatch: one TimeEntry driven by its callers.  Time does not run  *)
(* backwards: every call happens at a clock reading t >= now, and the      *)
(* first entry is constructed at reading 1.                                *)

Init ==
    \E marker \in MarkerArgs, flag \in JSValues, t \in {1} :
        /\ _started = TimeEntry(marker, flag, t)._started
        /\ _stopped = TimeEntry(marker, flag, t)._stopped
        /\ _marker = TimeEntry(marker, flag, t)._marker
        /\ _currentParam = strtOf(flag)._currentParam
        /\ _currentAnswer = strtOf(flag)._currentAnswer
        /\ calls = <<"isBoolean", "isTrue">>
        /\ valueOfRet = {}
        /\ now = t
        /\ op = "new TimeEntry"
        /\ ret = {}
        /\ thrown = FALSE
        /\ pre = TimeEntryFields

Construct ==
    \E marker \in MarkerArgs, flag \in JSValues, t \in now..MaxTime :
        /\ SetEntry(TimeEntry(marker, flag, t))
        /\ SetChain(strtOf(flag))
        /\ calls' = <<"isBoolean", "isTrue">>
        /\ valueOfRet' = {}
        /\ now' = t
        /\ op' = "new TimeEntry"
        /\ ret' = {}
        /\ thrown' = FALSE
        /\ pre' = TimeEntryFields

Start ==
    \E marker \in MarkerArgs, t \in now..MaxTime :
        /\ SetEntry(start(entry, marker, t).self)
        /\ ret' = {start(entry, marker, t).ret}
        /\ now' = t
        /\ op' = "start"
        /\ thrown' = FALSE
        /\ pre' = entry
        /\ UNCHANGED chainVars

Stop ==
    \E t \in now..MaxTime :
        /\ SetEntry(stop(entry, t).self)
        /\ ret' = {stop(entry, t).ret}
        /\ now' = t
        /\ op' = "stop"
        /\ thrown' = FALSE
        /\ pre' = entry
        /\ UNCHANGED chainVars

Reset ==
    \E t \in now..MaxTime :
        /\ SetEntry(reset(entry))
        /\ ret' = {}
        /\ now' = t
        /\ op' = "reset"
        /\ thrown' = FALSE
        /\ pre' = entry
        /\ UNCHANGED chainVars

Elapsed ==
    \E t \in now..MaxTime :
        /\ SetEntry(elapsed(entry).self)
        /\ ret' = {}
        /\ now' = t
        /\ op' = "elapsed"
        /\ thrown' = elapsed(entry).thrown
        /\ pre' = entry
        /\ UNCHANGED chainVars

Next == Construct \/ Start \/ Stop \/ Reset \/ Elapsed

Spec == Init /\ [][Next]_vars

----------------------------------------------------------------------------
(* The validation chain on its own: one chain, any value, any predicates   *)
(* in any order, read with valueOf().                                      *)

ChainInit ==
    \E param \in JSValues :
        /\ _currentParam = BaseParameterValidator(param)._currentParam
        /\ _currentAnswer = BaseParameterValidator(param)._currentAnswer
        /\ calls = <<>>
        /\ valueOfRet = {}
        /\ _started = TimeEntryFields._started
        /\ _stopped = TimeEntryFields._stopped
        /\ _marker = TimeEntryFields._marker
        /\ now = 1
        /\ op = "new BParamVal"
        /\ ret = {}
        /\ thrown = FALSE
        /\ pre = TimeEntryFields

ChainConstruct ==
    \E param \in JSValues :
        /\ SetChain(BaseParameterValidator(param))
        /\ calls' = <<>>
        /\ valueOfRet' = {}
        /\ op' = "new BParamVal"
        /\ UNCHANGED timerVars

\* One predicate call; the predicate returns the chain itself.
Call(name, after) ==
    /\ Len(calls) < MaxCalls
    /\ SetChain(after)
    /\ calls' = Append(calls, name)
    /\ valueOfRet' = {}
    /\ op' = name
    /\ UNCHANGED timerVars

IsSet == Call("isSet", isSet(chain))

IsNotNull == Call("isNotNull", isNotNull(chain))

IsBoolean == Call("isBoolean", isBoolean(chain))

IsTrue == Call("isTrue", isTrue(chain))

IsFalse == Call("isFalse", isFalse(chain))

ValueOf ==
    /\ op # "valueOf"
    /\ valueOfRet' = {valueOf(chain)}
    /\ op' = "valueOf"
    /\ UNCHANGED <<_currentParam, _currentAnswer, calls>>
    /\ UNCHANGED timerVars

ChainNext ==
    \/ ChainConstruct
    \/ IsSet
    \/ IsNotNull
    \/ IsBoolean
    \/ IsTrue
    \/ IsFalse
    \/ ValueOf

ChainSpec == ChainInit /\ [][ChainNext]_vars

----------------------------------------------------------------------------
(* Helpers of the properties *)

\* The chain after the predicate called name.
Apply(name, c) ==
    CASE name = "isSet"     -> isSet(c)
      [] name = "isNotNull" -> isNotNull(c)
      [] name = "isBoolean" -> isBoolean(c)
      [] name = "isTrue"    -> isTrue(c)
      [] name = "isFalse"   -> isFalse(c)

\* The result of the predicate called name on the value v, on its own: as
\* the only call on a fresh chain.
Independent(name, v) ==
    Apply(name, BaseParameterValidator(v))._currentAnswer = "true"

\* The logical AND of the independent results of the predicates called.
AndOfCalls ==
    \A i \in 1..Len(calls) : Independent(calls[i], _currentParam)

----------------------------------------------------------------------------
(* Properties of TimeEntry, under Spec *)

\* C1: a constructed TimeEntry has startedAt = now() exactly when its start
\* flag is boolean true, and is then Running with startedAt > 0; for every
\* other flag it is Ready with startedAt = 0 and stoppedAt = 0.
C1_ConstructStartsIffFlagTrue ==
    op = "new TimeEntry" =>
        IF _currentParam = "true"
        THEN running(entry) /\ _started = now /\ _started > 0
        ELSE ready(entry) /\ _started = 0 /\ _stopped = 0

\* C2: in every reachable state stoppedAt is 0 or at least startedAt.
C2_StoppedAtZeroOrNotBeforeStartedAt ==
    _stopped = 0 \/ _stopped >= _started

\* C3: start() on an entry that is Ready or Stopped leaves it Running.
C3_StartLeavesRunning ==
    (op = "start" /\ (ready(pre) \/ stopped(pre))) => running(entry)

\* C4: from every reachable state, start() followed immediately by stop()
\* leaves the entry Stopped with stoppedAt >= startedAt, startedAt being the
\* value that start() recorded.
C4_StartThenStopLeavesStopped ==
    [][(op = "start" /\ op' = "stop") =>
          /\ stopped(entry)'
          /\ _stopped' >= _started'
          /\ _started' = _started]_vars

\* C8: stop() on a Running entry sets stoppedAt to now(), returns that value,
\* leaves startedAt (and the label) unchanged and leaves the entry Stopped.
C8_StopOnRunning ==
    (op = "stop" /\ running(pre)) =>
        /\ _stopped = now
        /\ ret = {now}
        /\ _started = pre._started
        /\ _marker = pre._marker
        /\ stopped(entry)
        /\ ~running(entry)

C8_Witness ==
    /\ op = "stop"
    /\ running(pre)
    /\ now > pre._started
    /\ stopped(entry)

\* C9: stop() on an entry that is not Running changes no field and returns
\* the previous stoppedAt; a Ready entry stays Ready with stoppedAt = 0, and
\* a Stopped entry keeps the stoppedAt of the stop that stopped it.
C9_StopWhenNotRunningIsNoOp ==
    (op = "stop" /\ ~running(pre)) =>
        /\ entry = pre
        /\ ret = {pre._stopped}
        /\ (ready(pre) => ready(entry) /\ _stopped = 0)
        /\ (stopped(pre) => stopped(entry) /\ _stopped = pre._stopped)

C9_Witness ==
    /\ op = "stop"
    /\ stopped(pre)
    /\ now > pre._stopped
    /\ _stopped = pre._stopped

\* C10: reset() in any state sets startedAt = 0, stoppedAt = 0 and the label
\* to null, so that the entry is Ready and neither Running nor Stopped.
C10_ResetLandsInReady ==
    op = "reset" =>
        /\ _started = 0
        /\ _stopped = 0
        /\ _marker = "null"
        /\ ready(entry)
        /\ ~running(entry)
        /\ ~stopped(entry)

C10_Witness ==
    /\ op = "reset"
    /\ pre._started > 0
    /\ pre._stopped > 0
    /\ pre._marker # "null"
    /\ ready(entry)

----------------------------------------------------------------------------
(* Properties of BaseParameterValidator, under ChainSpec *)

\* C5: for every value and every sequence of predicates called on one chain,
\* the verdict of the chain is the logical AND of the independent result of
\* each predicate on the value, whatever the order of the calls.
C5_VerdictIsAndOfPredicates ==
    _currentAnswer = JSBool(AndOfCalls)

\* C6: a predicate call made while the stored verdict is false leaves it
\* false: the verdict never goes from false back to true on one chain.
C6_VerdictNeverRises ==
    [][(_currentAnswer = "false" /\ Len(calls') = Len(calls) + 1) =>
          _currentAnswer' = "false"]_vars

\* C7: valueOf() returns the stored verdict: true on a fresh chain, and then
\* the value the predicates last stored.
C7_ValueOfReturnsVerdict ==
    op = "valueOf" => valueOfRet = {_currentAnswer}

----------------------------------------------------------------------------
(* Further properties of TimeEntry, under Spec *)

\* C11: elapsed() on a Running or Stopped entry succeeds with a non-negative
\* integer: stoppedAt - startedAt on a Stopped entry, now() - startedAt on a
\* Running one.
C11_ElapsedReturnsDuration ==
    (op = "elapsed" /\ (running(pre) \/ stopped(pre))) =>
        /\ ~thrown
        /\ ret = {IF stopped(pre) THEN pre._stopped - pre._started
                  ELSE now - pre._started}
        /\ \A n \in ret : n >= 0

\* C12: elapsed() on a Ready entry ends in an error, returns no number and
\* leaves startedAt, stoppedAt and the label unchanged.
C12_ElapsedOnReadyFails ==
    (op = "elapsed" /\ ready(pre)) =>
        /\ thrown
        /\ ret = {}
        /\ entry = pre

C12_Witness ==
    /\ op = "elapsed"
    /\ ready(pre)
    /\ thrown
    /\ ready(entry)

\* C13: at most one of ready, running and stopped is true in every reachable
\* state.
C13_StatesMutuallyExclusive ==
    /\ ~(ready(entry) /\ running(entry))
    /\ ~(ready(entry) /\ stopped(entry))
    /\ ~(running(entry) /\ stopped(entry))

C13_Witness ==
    /\ op = "stop"
    /\ running(pre)
    /\ stopped(entry)
    /\ ~ready(entry)
    /\ ~running(entry)

\* C15: at least one of ready, running and stopped is true in every state
\* reachable by construct, start, stop and reset calls.
C15_StatesExhaustive ==
    ready(entry) \/ running(entry) \/ stopped(entry)

\* C16: start() in any state sets startedAt to now(), returns that value and
\* leaves stoppedAt as it was before the call.
C16_StartKeepsStoppedAt ==
    op = "start" =>
        /\ _started = now
        /\ ret = {_started}
        /\ _stopped = pre._stopped

C16_Witness ==
    /\ op = "start"
    /\ pre._stopped > 0
    /\ now > pre._started
    /\ _started = now
    /\ _stopped = pre._stopped

\* C17: once stoppedAt is nonzero no start(), stop() or elapsed() call
\* changes it; only reset() does, back to 0.
C17_StoppedAtWrittenOnce ==
    /\ (op \in {"start", "stop", "elapsed"} /\ pre._stopped # 0) =>
           _stopped = pre._stopped
    /\ (op = "reset" /\ pre._stopped # 0) => _stopped = 0

C17_Witness ==
    /\ op = "stop"
    /\ pre._stopped > 0
    /\ pre._started > pre._stopped
    /\ now > pre._stopped
    /\ _stopped = pre._stopped

----------------------------------------------------------------------------
(* Further properties of BaseParameterValidator, under ChainSpec *)

\* C14: for a value that is neither boolean true nor boolean false, the chain
\* yields false once isBoolean() has been applied, and no predicate throws.
C14_IsBooleanOnNonBooleanYieldsFalse ==
    /\ ~thrown
    /\ (/\ op = "valueOf"
        /\ Len(calls) > 0
        /\ calls[Len(calls)] = "isBoolean"
        /\ _currentParam \notin {"true", "false"}) => valueOfRet = {"false"}

====
